---------------------------- MODULE Spec2Model ----------------------------
(***************************************************************************)
(* Model of the lawyer matcher (src/main.py): roster loading (load_data),  *)
(* the recommendation pipeline (get_claude_response), the response parser  *)
(* (parse_claude_response) and the branches of main that consume them.     *)
(*                                                                         *)
(* A text is a sequence of lines; a line is the sequence of its pieces     *)
(* between colons, so that "Name: A" is <<"Name", " A">> and a line of     *)
(* prose is a single piece.  The two sentinels are lines of their own.     *)
(* A DataFrame is [columns, rows]; every row keeps its index label, as a   *)
(* pandas row does through a selection or a sort.                          *)
(***************************************************************************)
EXTENDS Integers, Sequences, FiniteSets, TLC

VARIABLES
    pc,             \* position of the running code
    csv,            \* the roster file on disk, as load_data meets it
    enc,            \* load_data: position in encodings_to_try
    exc,            \* the exception in flight, or NoExc
    messages,       \* what st.error / st.sidebar.error have shown, in order
    lawyers_df,     \* main: the loaded roster
    filtered_df,    \* the roster subset handed to get_claude_response
    secret,         \* whether st.secrets holds ANTHROPIC_API_KEY
    summary_text,   \* get_claude_response: the roster section built so far
    row,            \* get_claude_response: rows of the subset already rendered
    backendCalls,   \* number of client.messages.create calls issued
    parserCalls,    \* number of parse_claude_response calls made
    response_text,  \* the raw text the backend returned
    parsed,         \* what parse_claude_response returned
    backend,        \* how the backend call ended: "none", "failed" or "text"
    results_df,     \* main: what get_claude_response returned
    shown           \* main: whether the match table was displayed

vars == <<pc, csv, enc, exc, messages, lawyers_df, filtered_df, secret,
          summary_text, row, backendCalls, parserCalls, response_text,
          parsed, backend, results_df, shown>>

\* ------------------------------------------------------------------ bounds
MaxLen == 4

MaxRoster == 2

\* ------------------------------------------------------------- cell values
\* A cell of a DataFrame: a string, a number, or NaN (a missing value).
StrCell(s) == [t |-> "str", s |-> s, n |-> 0]

NumCell(k) == [t |-> "num", s |-> "", n |-> k]

NaN == [t |-> "nan", s |-> "", n |-> 0]

Range(f) == {f[i] : i \in DOMAIN f}

EmptyDF == [columns |-> <<>>, rows |-> <<>>]

\* DataFrame.empty: no rows or no columns.
IsEmpty(df) == Len(df.rows) = 0 \/ Len(df.columns) = 0

\* ----------------------------------------------------------------- texts
MATCH_START == <<"MATCH_START">>

MATCH_END == <<"MATCH_END">>

Lines ==
    { <<"Rank", " 1">>, <<"Rank", " 2">>, <<"Rank", " first">>,
      <<"Name", " A">>, <<"Education", " Yale">>, <<"Note", " a", "b">>,
      <<"Here are my picks">> }

Tokens == {MATCH_START, MATCH_END} \cup Lines

Texts == UNION {[1..n -> Tokens] : n \in 0..MaxLen}

\* str.strip on the pieces that occur in Lines.
Strip(s) ==
    CASE s = " 1" -> "1"
      [] s = " 2" -> "2"
      [] s = " first" -> "first"
      [] s = " A" -> "A"
      [] s = " Yale" -> "Yale"
      [] s = " a:b" -> "a:b"
      [] OTHER -> s

RECURSIVE JoinColon(_)
JoinColon(ps) ==
    IF Len(ps) = 1 THEN ps[1] ELSE ps[1] \o ":" \o JoinColon(Tail(ps))

\* ':' in line
HasColon(line) == Len(line) > 1

\* line.split(':', 1): the key, and everything after the first colon.
SplitFirst(line) == <<line[1], JoinColon(Tail(line))>>

\* str.split(sep): the pieces of text between the occurrences of sep.
RECURSIVE Split(_, _)
Split(text, sep) ==
    IF \A i \in 1..Len(text) : text[i] # sep
    THEN <<text>>
    ELSE LET i == CHOOSE j \in 1..Len(text) :
                      text[j] = sep /\ \A k \in 1..(j - 1) : text[k] # sep
         IN  <<SubSeq(text, 1, i - 1)>> \o Split(SubSeq(text, i + 1, Len(text)), sep)

SegmentsWithPreamble(response) == Split(response, MATCH_START)

\* response.split('MATCH_START')[1:]
Segments(response) == Tail(Split(response, MATCH_START))

\* match.split('MATCH_END')[0].strip().split('\n')
BlockLines(match) == Split(match, MATCH_END)[1]

\* A dict is the sequence of its items in insertion order.
Keys(d) == {d[i].k : i \in 1..Len(d)}

Get(d, k) == d[CHOOSE i \in 1..Len(d) : d[i].k = k].v

\* d[k] = v: an existing key keeps its place, a new one goes last.
Put(d, k, v) ==
    IF k \in Keys(d)
    THEN [i \in 1..Len(d) |-> IF d[i].k = k THEN [k |-> k, v |-> v] ELSE d[i]]
    ELSE Append(d, [k |-> k, v |-> v])

\* The loop over the lines of one block.
RECURSIVE MatchData(_)
MatchData(lines) ==
    IF lines = <<>> THEN <<>>
    ELSE LET before == MatchData(SubSeq(lines, 1, Len(lines) - 1))
             line == lines[Len(lines)]
         IN  IF HasColon(line)
             THEN Put(before, Strip(SplitFirst(line)[1]), Strip(SplitFirst(line)[2]))
             ELSE before

\* The loop over the segments: a block is kept when its dict is non-empty.
RECURSIVE MatchesOf(_)
MatchesOf(segs) ==
    IF segs = <<>> THEN <<>>
    ELSE LET match_data == MatchData(BlockLines(Head(segs)))
         IN  (IF match_data # <<>> THEN <<match_data>> ELSE <<>>)
                 \o MatchesOf(Tail(segs))

Matches(response) == MatchesOf(Segments(response))

\* Columns of pd.DataFrame(list of dicts): the keys, in order of first appearance.
RECURSIVE ColumnsOf(_)
ColumnsOf(matches) ==
    IF matches = <<>> THEN <<>>
    ELSE LET before == ColumnsOf(SubSeq(matches, 1, Len(matches) - 1))
             d == matches[Len(matches)]
             new == SelectSeq([i \in 1..Len(d) |-> d[i].k],
                              LAMBDA k : k \notin Range(before))
         IN  before \o new

\* pd.DataFrame(matches): one row per dict, NaN where a dict lacks a column.
DataFrame(matches) ==
    LET cols == ColumnsOf(matches)
    IN  [columns |-> cols,
         rows |-> [i \in 1..Len(matches) |->
                     [index |-> i - 1,
                      data |-> [c \in Range(cols) |->
                                  IF c \in Keys(matches[i])
                                  THEN StrCell(Get(matches[i], c))
                                  ELSE NaN]]]]

desired_columns == <<"Rank", "Name", "Key Expertise", "Recommendation Reason">>

existing_columns(df) ==
    SelectSeq(desired_columns, LAMBDA col : col \in Range(df.columns))

\* df[cols]: the same rows and index, the listed columns only.
Select(df, cols) ==
    [columns |-> cols,
     rows |-> [i \in 1..Len(df.rows) |->
                 [index |-> df.rows[i].index,
                  data |-> [c \in Range(cols) |-> df.rows[i].data[c]]]]]

\* The strings pd.to_numeric parses, with their values.
NumericValue == ("1" :> 1) @@ ("2" :> 2)

IsNumeric(s) == s \in DOMAIN NumericValue

\* pd.to_numeric raises ValueError on a string it cannot parse.
ToNumericRaises(df, col) ==
    \E i \in 1..Len(df.rows) :
        /\ df.rows[i].data[col].t = "str"
        /\ ~IsNumeric(df.rows[i].data[col].s)

\* df[col] = pd.to_numeric(df[col]): NaN stays NaN.
ToNumeric(df, col) ==
    [df EXCEPT !.rows =
        [i \in 1..Len(df.rows) |->
            [df.rows[i] EXCEPT !.data[col] =
                IF @.t = "str" THEN NumCell(NumericValue[@.s]) ELSE @]]]

\* Whether the rows, taken in the order p, are a result of sort_values(col):
\* ascending, NaN last in their original order.
IsSortedBy(df, col, p) ==
    \A i, j \in 1..Len(df.rows) :
        i < j =>
            LET a == df.rows[p[i]].data[col]
                b == df.rows[p[j]].data[col]
            IN  CASE a.t = "nan" /\ b.t = "nan" -> p[i] < p[j]
                  [] a.t = "nan" /\ b.t # "nan" -> FALSE
                  [] a.t # "nan" /\ b.t = "nan" -> TRUE
                  [] OTHER -> a.n <= b.n

\* df.sort_values(col) with the default kind='quicksort', which pandas
\* documents as not stable: rows of equal key come out in whichever order
\* the sort of the installed numpy leaves them.
SortValues(df, col) ==
    {[df EXCEPT !.rows = [i \in 1..Len(df.rows) |-> df.rows[p[i]]]] :
        p \in {q \in Permutations(1..Len(df.rows)) : IsSortedBy(df, col, q)}}

Returned(df) == [status |-> "ok", df |-> df]

Raised(type) == [status |-> type, df |-> EmptyDF]

NotParsed == [status |-> "none", df |-> EmptyDF]

\* Every outcome parse_claude_response(response) can have.
parse_claude_response(response) ==
    LET df == DataFrame(Matches(response))
    IN  IF IsEmpty(df) THEN {Returned(df)}
        ELSE LET projected == Select(df, existing_columns(df))
             IN  IF "Rank" \notin Range(projected.columns)
                 THEN {Returned(projected)}
                 ELSE IF ToNumericRaises(projected, "Rank")
                      THEN {Raised("ValueError")}
                      ELSE {Returned(d) : d \in SortValues(ToNumeric(projected, "Rank"), "Rank")}


\* ----------------------------------------------------------------- roster
LawyerRows ==
    [Attorney : {StrCell("A"), StrCell("B")},
     Education : {StrCell("Yale"), NaN},
     Expertise : {StrCell("tax"), NaN}]

Rosters == UNION {[1..n -> LawyerRows] : n \in 0..MaxRoster}

\* The subsets the pipeline runs are started with.
SampleRosters ==
    { <<>>,
      << [Attorney |-> StrCell("B"), Education |-> NaN, Expertise |-> StrCell("tax")],
         [Attorney |-> StrCell("A"), Education |-> StrCell("Yale"), Expertise |-> NaN] >> }

\* str(x), and x formatted into an f-string: a missing value reads "nan".
PyStr(cell) == IF cell.t = "nan" THEN "nan" ELSE cell.s

\* ------------------------------------------------------------ load_data
encodings_to_try == <<"utf-8", "latin1", "iso-8859-1", "cp1252">>

Missing ==
    [exists |-> FALSE, utf8 |-> TRUE, cp1252 |-> TRUE, columns |-> TRUE, rows |-> <<>>]

\* The file: whether it exists, whether its bytes decode as UTF-8 and as
\* cp1252 (latin1 and iso-8859-1 decode every byte), whether it has the four
\* columns load_data selects, and its rows.
CsvFiles ==
    {Missing} \cup
    [exists : {TRUE}, utf8 : BOOLEAN, cp1252 : BOOLEAN, columns : BOOLEAN, rows : Rosters]

\* pd.read_csv(file, encoding=encoding) followed by the column selection.
ReadCsv(file, encoding) ==
    IF ~file.exists THEN "FileNotFoundError"
    ELSE IF encoding = "utf-8" /\ ~file.utf8 THEN "UnicodeDecodeError"
    ELSE IF encoding = "cp1252" /\ ~file.cp1252 THEN "UnicodeDecodeError"
    ELSE IF ~file.columns THEN "KeyError"
    ELSE "ok"

NoExc == [type |-> "none", msg |-> ""]

CouldNotRead == "Could not read the CSV file with any of the attempted encodings"

FileMissingReport == <<"Could not find the required data file. Please check the file location.">>

GenericReport(e) == <<"An error occurred: ", e.msg>>

\* One turn of the loop over encodings_to_try.
LoadTry ==
    /\ pc = "Loading"
    /\ enc <= Len(encodings_to_try)
    /\ LET encoding == encodings_to_try[enc]
           outcome == ReadCsv(csv, encoding)
       IN  CASE outcome = "ok" ->
                  /\ lawyers_df' = csv.rows
                  /\ pc' = "Loaded"
                  /\ UNCHANGED <<enc, messages>>
             [] outcome = "UnicodeDecodeError" ->
                  /\ enc' = enc + 1
                  /\ UNCHANGED <<pc, lawyers_df, messages>>
             [] OTHER ->
                  /\ messages' = Append(messages, <<"Error reading file with ", encoding, outcome>>)
                  /\ enc' = enc + 1
                  /\ UNCHANGED <<pc, lawyers_df>>
    /\ UNCHANGED <<csv, exc, filtered_df, secret, summary_text, row, backendCalls,
                   parserCalls, response_text, parsed, backend, results_df, shown>>

\* The loop ran out of encodings: the raise that ends load_data.
LoadExhausted ==
    /\ pc = "Loading"
    /\ enc > Len(encodings_to_try)
    /\ exc' = [type |-> "Exception", msg |-> CouldNotRead]
    /\ pc' = "MainRaised"
    /\ UNCHANGED <<csv, enc, messages, lawyers_df, filtered_df, secret, summary_text,
                   row, backendCalls, parserCalls, response_text, parsed, backend,
                   results_df, shown>>

\* main's two handlers, tried in order.
MainExcept ==
    /\ pc = "MainRaised"
    /\ messages' = Append(messages, IF exc.type = "FileNotFoundError"
                                    THEN FileMissingReport
                                    ELSE GenericReport(exc))
    /\ pc' = "Done"
    /\ UNCHANGED <<csv, enc, exc, lawyers_df, filtered_df, secret, summary_text, row,
                   backendCalls, parserCalls, response_text, parsed, backend,
                   results_df, shown>>

\* Series.str.contains(area, na=False): a missing expertise never matches.
Contains(cell, area) == cell.t = "str" /\ cell.s = area

\* main: the practice-area filter over the loaded roster.
MainFilter ==
    /\ pc = "Loaded"
    /\ \E selected_practice_area \in {"All", "tax"} :
          filtered_df' =
              IF selected_practice_area # "All"
              THEN SelectSeq(lawyers_df,
                             LAMBDA lawyer : Contains(lawyer.Expertise, selected_practice_area))
              ELSE lawyers_df
    /\ pc' = "Idle"
    /\ UNCHANGED <<csv, enc, exc, messages, lawyers_df, secret, summary_text, row,
                   backendCalls, parserCalls, response_text, parsed, backend,
                   results_df, shown>>

\* ------------------------------------------------- get_claude_response
\* client = anthropic.Anthropic(api_key=st.secrets["ANTHROPIC_API_KEY"])
CreateClient ==
    /\ pc = "Idle"
    /\ IF secret
       THEN pc' = "Summary" /\ exc' = exc
       ELSE pc' = "Raised" /\ exc' = [type |-> "KeyError", msg |-> "ANTHROPIC_API_KEY"]
    /\ UNCHANGED <<csv, enc, messages, lawyers_df, filtered_df, secret, summary_text,
                   row, backendCalls, parserCalls, response_text, parsed, backend,
                   results_df, shown>>

SummaryHeader == << <<"Available Lawyers and Their Expertise:">>, <<"">> >>

StartSummary ==
    /\ pc = "Summary"
    /\ summary_text' = SummaryHeader
    /\ row' = 0
    /\ pc' = "Building"
    /\ UNCHANGED <<csv, enc, exc, messages, lawyers_df, filtered_df, secret,
                   backendCalls, parserCalls, response_text, parsed, backend,
                   results_df, shown>>

\* The rows of create_lawyer_cards: those with no missing field.
IterrowsSkipNA(df) ==
    SelectSeq(df, LAMBDA lawyer : /\ lawyer.Attorney.t # "nan"
                                  /\ lawyer.Education.t # "nan"
                                  /\ lawyer.Expertise.t # "nan")

\* lawyers_df.iterrows(): every row, in the frame's order.
Iterrows(df) == df

\* The lines one lawyer adds to summary_text.
RosterBlock(lawyer) ==
    << <<"- ", PyStr(lawyer.Attorney)>>,
       <<"  Education: ", PyStr(lawyer.Education)>>,
       <<"  Expertise: ", PyStr(lawyer.Expertise)>>,
       <<"">> >>

SummaryRow ==
    /\ pc = "Building"
    /\ row < Len(Iterrows(filtered_df))
    /\ summary_text' = summary_text \o RosterBlock(Iterrows(filtered_df)[row + 1])
    /\ row' = row + 1
    /\ UNCHANGED <<pc, csv, enc, exc, messages, lawyers_df, filtered_df, secret,
                   backendCalls, parserCalls, response_text, parsed, backend,
                   results_df, shown>>

SummaryDone ==
    /\ pc = "Building"
    /\ row = Len(Iterrows(filtered_df))
    /\ pc' = "Requesting"
    /\ UNCHANGED <<csv, enc, exc, messages, lawyers_df, filtered_df, secret,
                   summary_text, row, backendCalls, parserCalls, response_text,
                   parsed, backend, results_df, shown>>

\* What client.messages.create and message.content[0].text can raise.
BackendFailures == {"APIConnectionError", "AuthenticationError", "RateLimitError", "IndexError"}

CallBackendWithRetry ==
    /\ pc = "Requesting"
    /\ backendCalls < 2
    /\ backendCalls' = backendCalls + 1
    /\ \/ /\ \E kind \in BackendFailures : exc' = [type |-> kind, msg |-> kind]
          /\ backend' = "failed"
          /\ pc' = IF backendCalls' < 2 THEN "Requesting" ELSE "Raised"
          /\ UNCHANGED response_text
       \/ /\ \E text \in Texts : response_text' = text
          /\ backend' = "text"
          /\ pc' = "Parsing"
          /\ UNCHANGED exc
    /\ UNCHANGED <<csv, enc, messages, lawyers_df, filtered_df, secret, summary_text,
                   row, parserCalls, parsed, results_df, shown>>

\* message = client.messages.create(...); response_text = message.content[0].text
CallBackend ==
    /\ pc = "Requesting"
    /\ backendCalls' = backendCalls + 1
    /\ \/ /\ \E kind \in BackendFailures : exc' = [type |-> kind, msg |-> kind]
          /\ backend' = "failed"
          /\ pc' = "Raised"
          /\ UNCHANGED response_text
       \/ /\ \E text \in Texts : response_text' = text
          /\ backend' = "text"
          /\ pc' = "Parsing"
          /\ UNCHANGED exc
    /\ UNCHANGED <<csv, enc, messages, lawyers_df, filtered_df, secret, summary_text,
                   row, parserCalls, parsed, results_df, shown>>

\* parse_claude_response(response_text) returns a frame.
ParseReturn ==
    /\ pc = "Parsing"
    /\ \E outcome \in parse_claude_response(response_text) :
          /\ outcome.status = "ok"
          /\ parsed' = outcome
    /\ parserCalls' = parserCalls + 1
    /\ pc' = "Parsed"
    /\ UNCHANGED <<csv, enc, exc, messages, lawyers_df, filtered_df, secret,
                   summary_text, row, backendCalls, response_text, backend,
                   results_df, shown>>

\* parse_claude_response(response_text) raises.
ParseRaise ==
    /\ pc = "Parsing"
    /\ \E outcome \in parse_claude_response(response_text) :
          /\ outcome.status # "ok"
          /\ parsed' = outcome
          /\ exc' = [type |-> outcome.status, msg |-> "Unable to parse string"]
    /\ parserCalls' = parserCalls + 1
    /\ pc' = "Raised"
    /\ UNCHANGED <<csv, enc, messages, lawyers_df, filtered_df, secret, summary_text,
                   row, backendCalls, response_text, backend, results_df, shown>>

None == [none |-> TRUE, df |-> EmptyDF]

\* return parse_claude_response(response_text)
ReturnParsed ==
    /\ pc = "Parsed"
    /\ results_df' = [none |-> FALSE, df |-> parsed.df]
    /\ pc' = "Returned"
    /\ UNCHANGED <<csv, enc, exc, messages, lawyers_df, filtered_df, secret,
                   summary_text, row, backendCalls, parserCalls, response_text,
                   parsed, backend, shown>>

\* except Exception as e: three messages, return None.
ExceptHandler ==
    /\ pc = "Raised"
    /\ messages' = messages \o << <<"Error getting recommendations">>,
                                  <<"API Error Details: ", exc.msg>>,
                                  <<"Error Type: ", exc.type>> >>
    /\ results_df' = None
    /\ pc' = "Returned"
    /\ UNCHANGED <<csv, enc, exc, lawyers_df, filtered_df, secret, summary_text, row,
                   backendCalls, parserCalls, response_text, parsed, backend, shown>>

\* main: if results_df is not None and not results_df.empty: show the table.
MainShow ==
    /\ pc = "Returned"
    /\ shown' = (~results_df.none /\ ~IsEmpty(results_df.df))
    /\ pc' = "Done"
    /\ UNCHANGED <<csv, enc, exc, messages, lawyers_df, filtered_df, secret,
                   summary_text, row, backendCalls, parserCalls, response_text,
                   parsed, backend, results_df>>

\* ------------------------------------------------------- specifications
Fresh ==
    /\ enc = 1
    /\ exc = NoExc
    /\ messages = <<>>
    /\ lawyers_df = <<>>
    /\ summary_text = <<>>
    /\ row = 0
    /\ backendCalls = 0
    /\ parserCalls = 0
    /\ parsed = NotParsed
    /\ backend = "none"
    /\ results_df = None
    /\ shown = FALSE

\* One search: get_claude_response and the branch of main that shows its result.
Init ==
    /\ pc = "Idle"
    /\ csv \in {[exists |-> TRUE, utf8 |-> TRUE, cp1252 |-> TRUE, columns |-> TRUE, rows |-> r] :
                    r \in SampleRosters}
    /\ filtered_df = csv.rows
    /\ secret \in BOOLEAN
    /\ response_text = <<>>
    /\ Fresh

Next ==
    \/ CreateClient
    \/ StartSummary
    \/ SummaryRow
    \/ SummaryDone
    \/ CallBackend
    \/ ParseReturn
    \/ ParseRaise
    \/ ReturnParsed
    \/ ExceptHandler
    \/ MainShow

Spec == Init /\ [][Next]_vars

\* parse_claude_response alone, on every text.
InitParser ==
    /\ pc = "Parsing"
    /\ csv = Missing
    /\ filtered_df = <<>>
    /\ secret = TRUE
    /\ response_text \in Texts
    /\ Fresh

NextParser == ParseReturn \/ ParseRaise

SpecParser == InitParser /\ [][NextParser]_vars


\* The roster section of the prompt, for every roster subset.
InitPrompt ==
    /\ pc = "Summary"
    /\ csv \in {[exists |-> TRUE, utf8 |-> TRUE, cp1252 |-> TRUE, columns |-> TRUE, rows |-> r] :
                    r \in Rosters}
    /\ filtered_df = csv.rows
    /\ secret = TRUE
    /\ response_text = <<>>
    /\ Fresh

NextPrompt == StartSummary \/ SummaryRow \/ SummaryDone

SpecPrompt == InitPrompt /\ [][NextPrompt]_vars

\* main from its start to the filtered roster, over every roster file.
InitLoad ==
    /\ pc = "Loading"
    /\ csv \in CsvFiles
    /\ filtered_df = <<>>
    /\ secret = TRUE
    /\ response_text = <<>>
    /\ Fresh

NextLoad == LoadTry \/ LoadExhausted \/ MainExcept \/ MainFilter

SpecLoad == InitLoad /\ [][NextLoad]_vars


\* ---------------------------------------------------------------- claims
\* The labels the wire protocol recognizes.
RecognizedLabels == {"Rank", "Name", "Key Expertise", "Education", "Recommendation Reason"}

\* The records a frame holds for its reader: an empty frame holds none.
Records(df) == IF IsEmpty(df) THEN <<>> ELSE df.rows

ParserDone == pc \in {"Parsed", "Raised"}

\* Every block of the text has a Rank, and it is numeric.
AllBlocksNumericRank(response) ==
    LET segs == Segments(response)
    IN  /\ Len(segs) >= 1
        /\ \A i \in 1..Len(segs) :
              LET match_data == MatchData(BlockLines(segs[i]))
              IN  "Rank" \in Keys(match_data) /\ IsNumeric(Get(match_data, "Rank"))

EncounterOrder(df, n) ==
    /\ Len(df.rows) = n
    /\ \A i \in 1..Len(df.rows) : df.rows[i].index = i - 1

\* A cell that holds the value a block gave.
CellHolds(cell, v) ==
    \/ cell.t = "str" /\ cell.s = v
    \/ cell.t = "num" /\ IsNumeric(v) /\ NumericValue[v] = cell.n

\* C1: on a text of N blocks that each have a numeric Rank, the parser
\* returns exactly N records in ascending Rank, and records of equal Rank
\* keep their encounter order.
C1_AscendingStable ==
    (ParserDone /\ AllBlocksNumericRank(response_text)) =>
        /\ pc = "Parsed"
        /\ Len(parsed.df.rows) = Len(Segments(response_text))
        /\ \A i, j \in 1..Len(parsed.df.rows) :
              i < j =>
                  /\ parsed.df.rows[i].data["Rank"].n <= parsed.df.rows[j].data["Rank"].n
                  /\ parsed.df.rows[i].data["Rank"].n = parsed.df.rows[j].data["Rank"].n
                        => parsed.df.rows[i].index < parsed.df.rows[j].index

\* The retained blocks hold a non-numeric Rank next to a numeric one.
MixedRankTypes(response) ==
    LET matches == Matches(response)
    IN  /\ \E i \in 1..Len(matches) :
              "Rank" \in Keys(matches[i]) /\ ~IsNumeric(Get(matches[i], "Rank"))
        /\ \E i \in 1..Len(matches) :
              "Rank" \in Keys(matches[i]) /\ IsNumeric(Get(matches[i], "Rank"))

\* C2: with a non-numeric Rank next to numeric ones the parser does not
\* raise, and returns every retained record in encounter order.
C2_MixedRankNoRaise ==
    (ParserDone /\ MixedRankTypes(response_text)) =>
        /\ pc = "Parsed"
        /\ EncounterOrder(parsed.df, Len(Matches(response_text)))

\* One retained block has no Rank, another has one; the Ranks present are
\* all numeric, so that nothing but the missing Rank is at play.
SomeRankMissing(response) ==
    LET matches == Matches(response)
    IN  /\ \E i \in 1..Len(matches) : "Rank" \notin Keys(matches[i])
        /\ \E i \in 1..Len(matches) : "Rank" \in Keys(matches[i])
        /\ \A i \in 1..Len(matches) :
              "Rank" \in Keys(matches[i]) => IsNumeric(Get(matches[i], "Rank"))

\* C3: when a retained block has no Rank and another has one, the parser
\* returns all records in encounter order.
C3_MissingRankEncounterOrder ==
    (ParserDone /\ SomeRankMissing(response_text)) =>
        /\ pc = "Parsed"
        /\ EncounterOrder(parsed.df, Len(Matches(response_text)))

\* C6: every record of the output comes from a block that held at least
\* one recognized label.
C6_RecordsHaveRecognizedLabel ==
    pc = "Parsed" =>
        \A i \in 1..Len(Records(parsed.df)) :
            LET match_data == Matches(response_text)[Records(parsed.df)[i].index + 1]
            IN  Keys(match_data) \cap RecognizedLabels # {}

\* C7: a record carries every recognized label of its block, Education
\* included, with the block's value, and no other label.
C7_RecognizedLabelsSurvive ==
    pc = "Parsed" =>
        /\ Range(parsed.df.columns) \subseteq RecognizedLabels
        /\ \A i \in 1..Len(parsed.df.rows) :
              LET match_data == Matches(response_text)[parsed.df.rows[i].index + 1]
              IN  \A label \in RecognizedLabels \cap Keys(match_data) :
                      /\ label \in Range(parsed.df.columns)
                      /\ CellHolds(parsed.df.rows[i].data[label], Get(match_data, label))

\* The outcome of a pipeline run, read off what get_claude_response returned.
Outcome ==
    IF results_df.none THEN "Failed"
    ELSE IF IsEmpty(results_df.df) THEN "EmptyResult" ELSE "Succeeded"

\* C4: a backend failure ends in Failed with no parser run; a backend call
\* that returned text runs the parser once and ends in Succeeded or in
\* EmptyResult, never in Failed.
C4_PipelineOutcomes ==
    pc = "Returned" =>
        /\ backend = "failed" => (Outcome = "Failed" /\ parserCalls = 0)
        /\ backend = "text" =>
              /\ parserCalls = 1
              /\ Outcome \in {"Succeeded", "EmptyResult"}
              /\ Len(Records(parsed.df)) >= 1 => Outcome = "Succeeded"
              /\ Len(Records(parsed.df)) = 0 => Outcome = "EmptyResult"

NoSentinel(text) == \A i \in 1..Len(text) : text[i] # MATCH_START

\* C5: for a text with no MATCH_START the parser returns an empty result
\* and does not raise, and the pipeline hands that empty result, not None,
\* to its caller.
C5_NoSentinelEmptyResult ==
    (backend = "text" /\ NoSentinel(response_text) /\ pc # "Parsing") =>
        /\ pc # "Raised"
        /\ parsed.status = "ok"
        /\ parsed.df.rows = <<>>
        /\ pc \in {"Returned", "Done"} =>
              /\ ~results_df.none
              /\ Outcome = "EmptyResult"
              /\ messages = <<>>

C5_Witness ==
    /\ pc = "Returned"
    /\ backend = "text"
    /\ NoSentinel(response_text)
    /\ \E i \in 1..Len(response_text) : HasColon(response_text[i])
    /\ \E i \in 1..Len(response_text) : response_text[i] = MATCH_END
    /\ Outcome = "EmptyResult"

\* C8 as stated: every pipeline run issues exactly one backend call.
C8_ExactlyOneCall == pc \in {"Returned", "Done"} => backendCalls = 1

\* C8 amended: a pipeline run issues at most one backend call, exactly one
\* whenever the credential lookup succeeded and none when it did not; a
\* failed call is never followed by a second call or by the parser, and is
\* returned to the caller as None.
C8_AtMostOneCall ==
    /\ backendCalls <= 1
    /\ pc \in {"Returned", "Done"} =>
          /\ secret => backendCalls = 1
          /\ ~secret => backendCalls = 0
          /\ backend = "failed" => (results_df.none /\ parserCalls = 0)

C8_Witness ==
    /\ pc = "Returned"
    /\ backend = "failed"
    /\ backendCalls = 1
    /\ results_df.none

\* C9: a missing roster file is never reported to the user as the
\* could-not-decode condition.
C9_MissingFileDistinct ==
    (pc = "Done" /\ ~csv.exists) =>
        messages[Len(messages)] # GenericReport([type |-> "Exception", msg |-> CouldNotRead])

\* The lines of summary_text that open a roster block.
BlockStarts == {i \in 1..Len(summary_text) : summary_text[i][1] = "- "}

\* C10: the prompt built from a subset of K rows holds exactly K roster
\* blocks (name, education, expertise), one per row and in the rows' order,
\* and the subset is left as it was.
C10_PromptKeepsRoster ==
    /\ [](pc = "Requesting" =>
            /\ Cardinality(BlockStarts) = Len(filtered_df)
            /\ Len(summary_text) = Len(SummaryHeader) + 4 * Len(filtered_df)
            /\ \A i \in 1..Len(filtered_df) :
                  LET at == Len(SummaryHeader) + 4 * (i - 1)
                  IN  /\ summary_text[at + 1] = <<"- ", PyStr(filtered_df[i].Attorney)>>
                      /\ summary_text[at + 2] = <<"  Education: ", PyStr(filtered_df[i].Education)>>
                      /\ summary_text[at + 3] = <<"  Expertise: ", PyStr(filtered_df[i].Expertise)>>)
    /\ [][filtered_df' = filtered_df]_vars

C10_Witness ==
    /\ pc = "Requesting"
    /\ Len(filtered_df) = 2
    /\ filtered_df[1].Attorney = StrCell("B")
    /\ filtered_df[2].Attorney = StrCell("A")
    /\ filtered_df[1].Education = NaN

=============================================================================
